---- MODULE Spec2Model ----
(***************************************************************************)
(* Tracker lifecycle and price-check engine of main.py.                    *)
(*                                                                         *)
(* Three activities share the data directory:                              *)
(*   - the scheduled pass      check_all_trackers  (one instance at a time)*)
(*   - the creation request    track               (POST /track)           *)
(*   - the listing request     status              (GET /status)           *)
(* Every step below performs at most one access to the shared medium (the  *)
(* directory, the page provider or the mail transport); the local          *)
(* computation that follows the access belongs to the same step.           *)
(***************************************************************************)
EXTENDS Integers, FiniteSets, Sequences, TLC

(* ------------------------------ bounds -------------------------------- *)
MaxFiles == 2      \* files data/ ever holds: those found at start plus
                   \* the trackers /track accepts afterwards
MaxPrice == 3      \* prices the page provider may show: 1..MaxPrice

AllIds   == 1..MaxFiles
Prices   == 1..MaxPrice
Targets  == {2}

(* ------------------------- persisted records -------------------------- *)
\* Python's None, the value dict.get gives for an absent key.
None == "None"

\* What one file of data/ holds.  json is what json.load makes of it:
\*   "corrupt"  json.load raises,
\*   "array"    valid JSON that is not a key/value object,
\*   "object"   a dict; target_kind tells whether target_price is a number,
\*              a text that float() rejects, or absent.
\* created_at is time.time() at creation ("t"); nothing ever reads it.
Rec(j, u, tk, tv, e) ==
    [json |-> j, url |-> u, target_kind |-> tk, target_price |-> tv, email |-> e,
     created_at |-> IF j = "object" THEN "t" ELSE None]

Tracker(u, tv, e) == Rec("object", u, "number", tv, e)
Corrupt  == Rec("corrupt", None, "None", 0, None)
Array    == Rec("array",   None, "None", 0, None)
NoRecord == Rec("none",    None, "None", 0, None)

\* The files an installation may already hold.
InitRecords ==
    {Corrupt, Array}
      \cup {Tracker("u", t, "e") : t \in Targets}
      \cup {Rec("object", None, "number", t, "e") : t \in Targets}
      \cup {Rec("object", "u", "number", t, None) : t \in Targets}
      \cup {Rec("object", "u", "None", 0, "e"),
            Rec("object", "u", "text", 0, "e")}

\* What a client may post to /track.
Requests ==
    [url : {"u", None}, email : {"e", None},
     target : {[kind |-> "None", value |-> 0], [kind |-> "text", value |-> 0]}
                \cup {[kind |-> "number", value |-> t] : t \in Targets}]

\* Outcomes of get_price: it raises, returns None, or returns a price.
PriceOutcomes ==
    {[kind |-> "error", value |-> 0], [kind |-> "None", value |-> 0]}
      \cup {[kind |-> "price", value |-> p] : p \in Prices}

VARIABLES
    files,          \* data/*.json : id -> record
    creds,          \* SENDER_EMAIL and SENDER_PASSWORD are both set
    nextId,         \* the next identifier uuid4 hands out
    pass,           \* check_all_trackers: pc, todo, path, tracker, current, ok
    req,            \* track: pc, tid, tracker, current, ok, emailed, response;
                    \* unlinked records what its path.unlink() did
    stat,           \* status: pc, todo, items
    \* ---- observation of the run (never read by the program) ----
    origin,         \* id -> the record first stored under it
    sent,           \* id -> who got a success from send_email for it
    qualified,      \* ids for which some resolved price was <= target
    retired,        \* ids whose file an unlink removed
    smtpAttempted,  \* an SMTP connection was opened
    deleteRaised,   \* delete_tracker_file let an exception escape
    passSeenRetired,\* retired, as it was when the running pass started
    statSeenRetired,\* retired, as it was when the running listing started
    tornRead,       \* ids a reader opened while save_tracker was writing them
    called,         \* id -> who called send_email for it, recorded when
                    \* one evaluation is replayed on both code paths
    \* ---- inputs fixed for one experiment ----
    script,         \* the answers of the page provider, the mail transport
                    \* and the medium, and the request posted, when one
                    \* evaluation is replayed on both code paths
    page,           \* the elements of the page get_price has loaded
    rs              \* get_price: pc, i, consulted, price_text, cleaned,
                    \* result

vars == <<files, creds, nextId, pass, req, stat, origin, sent, qualified,
          retired, smtpAttempted, deleteRaised, passSeenRetired,
          statSeenRetired, tornRead, called, script, page, rs>>

obsVars == <<origin, sent, qualified, retired, smtpAttempted, deleteRaised,
             called>>

\* save_tracker is between its open and the end of its `with` on path p.
Writing(p) == req.pc = "write" /\ req.tid = p

\* What the engine never writes.
sideVars == <<script, page, rs>>

(* ----------------------------- helpers -------------------------------- *)
\* DATA_DIR.glob("*.json"): the names in the directory at this moment.
glob(fs) == DOMAIN fs

\* A loader that answers from a cache of what was once stored.
load_Cached(fs, p) == IF p \in DOMAIN origin THEN origin[p] ELSE NoRecord

\* p.open + json.load on one globbed path: what is on disk now, with no
\* cache in between; a file that has vanished since the glob does not open.
load(fs, p) == IF p \in DOMAIN fs THEN fs[p] ELSE NoRecord

\* load_all_trackers yields (p, d) when the file opens and json.load
\* succeeds; a vanished or corrupt file is logged and skipped.
Readable(fs, p) == load(fs, p).json \notin {"none", "corrupt"}

\* tracker.get on something that is not a dict raises AttributeError.
GetRaises(d) == d.json # "object"

\* The validity test with the email check left out.
IsInvalid_NoEmail(d) == d.url = None \/ d.target_kind = None

\* `not url or target is None or not email`
IsInvalid(d) == d.url = None \/ d.target_kind = None \/ d.email = None

\* float(target) raises ValueError on a text that is not a number.
FloatRaises(d) == d.target_kind = "text"

\* The comparison turned round, and the comparison without its boundary.
Qualifies_Reversed(current, target) == current >= target
Qualifies_Strict(current, target) == current < target

\* `float(current) <= float(target)`
Qualifies(current, target) == current <= target

\* send_email without the credentials guard of line 112.
send_email_NoCheck(configured, transportOk) == [ok |-> transportOk, smtp |-> TRUE]

\* send_email: False at once without credentials, otherwise one SMTP
\* attempt whose outcome is the transport's.
send_email(configured, transportOk) ==
    IF ~configured THEN [ok |-> FALSE, smtp |-> FALSE]
                   ELSE [ok |-> transportOk, smtp |-> TRUE]

\* path.unlink() without the try: a missing file raises to the caller.
delete_tracker_file_NoCatch(fs, path, unlinkOk) ==
    IF path \notin DOMAIN fs
      THEN [fs |-> fs, raised |-> TRUE]
      ELSE IF unlinkOk
        THEN [fs |-> [q \in DOMAIN fs \ {path} |-> fs[q]], raised |-> FALSE]
        ELSE [fs |-> fs, raised |-> TRUE]

\* A delete that empties the file and leaves its name in place.
delete_tracker_file_Truncate(fs, path, unlinkOk) ==
    IF path \notin DOMAIN fs
      THEN [fs |-> fs, raised |-> FALSE]
      ELSE [fs |-> [q \in DOMAIN fs |-> IF q = path THEN Corrupt ELSE fs[q]],
            raised |-> FALSE]

\* delete_tracker_file: path.unlink() inside try/except Exception.
\* unlinkOk is the medium's answer for a file that exists.
delete_tracker_file(fs, path, unlinkOk) ==
    IF path \notin DOMAIN fs
      THEN [fs |-> fs, raised |-> FALSE]      \* FileNotFoundError, logged
      ELSE IF unlinkOk
        THEN [fs |-> [q \in DOMAIN fs \ {path} |-> fs[q]], raised |-> FALSE]
        ELSE [fs |-> fs, raised |-> FALSE]    \* OSError, logged

\* The delete reached whatever send_email returned.
DeletesAfter_Always(ok) == TRUE

\* `if ok: delete_tracker_file(path)`, else only a log line.
DeletesAfter(ok) == ok

\* A file name that is not fresh: every tracker is stored under one name.
uuid4_Reused(n) == 1

\* tid = str(uuid.uuid4()): an identifier no file has had; n counts the
\* identifiers handed out so far, plus one.
uuid4(n) == n

\* save_tracker: the record is written to data/<tid>.json.
save_tracker(fs, tid, data) ==
    [q \in DOMAIN fs \cup {tid} |-> IF q = tid THEN data ELSE fs[q]]


(* --------------------- the bytes of a record file --------------------- *)
\* json.dump(data, f, indent=2) writes the object as a run of chunks: the
\* opening brace, one member per key in the order of the dict of line 210,
\* the closing brace.
Chunk(k, v) == [key |-> k, value |-> v]
json_dump(data) ==
    <<Chunk("{", None), Chunk("url", data.url),
      Chunk("target_price", data.target_price), Chunk("email", data.email),
      Chunk("created_at", data.created_at), Chunk("}", None)>>

\* The member of an object text under key k, None when it has none.
Has(text, k) == \E i \in 1..Len(text) : text[i].key = k
Member(text, k) ==
    IF Has(text, k)
      THEN text[CHOOSE i \in 1..Len(text) : text[i].key = k].value
      ELSE None

\* The object the members of a text spell.
ObjectOf(text) ==
    [json |-> "object", url |-> Member(text, "url"),
     target_kind |-> IF Has(text, "target_price") THEN "number" ELSE None,
     target_price |-> IF Has(text, "target_price")
                        THEN Member(text, "target_price") ELSE 0,
     email |-> Member(text, "email"), created_at |-> Member(text, "created_at")]

\* A parser that takes an object whose closing brace has not come yet.
json_load_Lenient(text) ==
    IF Len(text) = 0 \/ text[1].key # "{" THEN Corrupt ELSE ObjectOf(text)

\* json.load on what a reader finds in the file: JSONDecodeError on an
\* empty file and on an object that is not closed.
json_load(text) ==
    IF Len(text) = 0 \/ text[1].key # "{" \/ text[Len(text)].key # "}"
      THEN Corrupt
      ELSE ObjectOf(text)

\* path.open("w") creates the file empty; the chunks written so far are
\* what a reader of the file gets, the first n of them.
write_chunks(fs, tid, data, n) ==
    [q \in DOMAIN fs \cup {tid} |->
       IF q = tid THEN json_load(SubSeq(json_dump(data), 1, n)) ELSE fs[q]]

(* ------------------------------- Init --------------------------------- *)
\* No experiment is set up.
NoScript == [r |-> [url |-> None, email |-> None,
                    target |-> [kind |-> "None", value |-> 0]],
             o |-> [kind |-> "None", value |-> 0],
             transportOk |-> FALSE, unlinkOk |-> FALSE]

\* No page is loaded and get_price is not running.
NoPage == << >>
NoneResult == [kind |-> "None", whole |-> 0, frac |-> << >>]
IdleResolver == [pc |-> "idle", i |-> 0, consulted |-> << >>,
                 price_text |-> << >>, cleaned |-> << >>, result |-> NoneResult]

IdlePass == [pc |-> "idle", todo |-> {}, path |-> 0, tracker |-> NoRecord,
             current |-> 0, ok |-> FALSE]
IdleReq  == [pc |-> "idle", tid |-> 0, tracker |-> NoRecord, current |-> 0,
             ok |-> FALSE, emailed |-> FALSE, unlinked |-> "none",
             response |-> 0, written |-> 0]
IdleStat == [pc |-> "idle", todo |-> {}, items |-> {}]

Init ==
    /\ \E k \in 0..MaxFiles :
         /\ files \in [1..k -> InitRecords]
         /\ nextId = k + 1
    /\ creds \in BOOLEAN
    /\ pass = IdlePass
    /\ req = IdleReq
    /\ stat = IdleStat
    /\ origin = files
    /\ sent = [i \in AllIds |-> {}]
    /\ qualified = {}
    /\ retired = {}
    /\ smtpAttempted = FALSE
    /\ deleteRaised = FALSE
    /\ passSeenRetired = {}
    /\ statSeenRetired = {}
    /\ tornRead = {}
    /\ called = [i \in AllIds |-> {}]
    /\ script = NoScript
    /\ page = NoPage
    /\ rs = IdleResolver

\* What an observer records of one path.unlink().
UnlinkSeen(before, after, path) ==
    IF path \notin DOMAIN before THEN "absent"
    ELSE IF path \notin DOMAIN after THEN "removed" ELSE "denied"

(* ----------------------- check_all_trackers --------------------------- *)
\* The scheduler fires the job; load_all_trackers globs data/*.json once.
PassStart ==
    /\ pass.pc \in {"idle", "aborted"}
    /\ pass' = [IdlePass EXCEPT !.pc = "iter", !.todo = glob(files)]
    /\ passSeenRetired' = retired
    /\ UNCHANGED <<files, creds, nextId, req, stat, statSeenRetired>>
    /\ UNCHANGED <<sideVars, tornRead>>
    /\ UNCHANGED obsVars

\* The generator opens the next file: unreadable files are logged and
\* skipped inside load_all_trackers, invalid records by the loop body.
PassSkip ==
    /\ pass.pc = "iter"
    /\ \E p \in pass.todo :
         /\ \/ ~Readable(files, p)
            \/ Readable(files, p) /\ ~GetRaises(load(files, p)) /\ IsInvalid(load(files, p))
         /\ pass' = [pass EXCEPT !.todo = @ \ {p}]
         /\ tornRead' = IF Writing(p) THEN tornRead \cup {p} ELSE tornRead
    /\ UNCHANGED <<files, creds, nextId, req, stat>>
    /\ UNCHANGED <<passSeenRetired, statSeenRetired>>
    /\ UNCHANGED sideVars
    /\ UNCHANGED obsVars

\* tracker.get(...) on a record that is not a dict: AttributeError leaves
\* check_all_trackers, no try encloses lines 156-158.
PassLoadAbort ==
    /\ pass.pc = "iter"
    /\ \E p \in pass.todo :
         /\ Readable(files, p) /\ GetRaises(load(files, p))
         /\ pass' = [pass EXCEPT !.pc = "aborted", !.todo = @ \ {p}]
         /\ tornRead' = IF Writing(p) THEN tornRead \cup {p} ELSE tornRead
    /\ UNCHANGED <<files, creds, nextId, req, stat>>
    /\ UNCHANGED <<passSeenRetired, statSeenRetired>>
    /\ UNCHANGED sideVars
    /\ UNCHANGED obsVars

\* A valid record is yielded: the loop body holds its own copy of it.
PassLoad ==
    /\ pass.pc = "iter"
    /\ \E p \in pass.todo :
         /\ Readable(files, p) /\ ~GetRaises(load(files, p)) /\ ~IsInvalid(load(files, p))
         /\ pass' = [pass EXCEPT !.pc = "fetch", !.todo = @ \ {p}, !.path = p,
                                 !.tracker = load(files, p), !.ok = FALSE]
         /\ tornRead' = IF Writing(p) THEN tornRead \cup {p} ELSE tornRead
    /\ UNCHANGED <<files, creds, nextId, req, stat>>
    /\ UNCHANGED <<passSeenRetired, statSeenRetired>>
    /\ UNCHANGED sideVars
    /\ UNCHANGED obsVars

\* current = get_price(url); an exception or None goes to the next
\* tracker; the log line 173 evaluates float(target) outside any try.
PassGetPriceWith(o) ==
    /\ pass.pc = "fetch"
    /\ /\ pass' = IF o.kind # "price"
                    THEN [IdlePass EXCEPT !.pc = "iter", !.todo = pass.todo]
                  ELSE IF FloatRaises(pass.tracker)
                    THEN [IdlePass EXCEPT !.pc = "aborted", !.todo = pass.todo]
                  ELSE [pass EXCEPT !.pc = "compare", !.current = o.value]
       /\ qualified' = IF /\ o.kind = "price"
                          /\ pass.tracker.target_kind = "number"
                          /\ o.value <= pass.tracker.target_price
                         THEN qualified \cup {pass.path} ELSE qualified
    /\ UNCHANGED <<files, creds, nextId, req, stat>>
    /\ UNCHANGED <<passSeenRetired, statSeenRetired>>
    /\ UNCHANGED <<sideVars, tornRead>>
    /\ UNCHANGED <<origin, sent, retired, smtpAttempted, deleteRaised, called>>

PassGetPrice == \E o \in PriceOutcomes : PassGetPriceWith(o)

\* if float(current) <= float(target):
PassCompare ==
    /\ pass.pc = "compare"
    /\ pass' = IF Qualifies(pass.current, pass.tracker.target_price)
                 THEN [pass EXCEPT !.pc = "send"]
                 ELSE [IdlePass EXCEPT !.pc = "iter", !.todo = pass.todo]
    /\ UNCHANGED <<files, creds, nextId, req, stat>>
    /\ UNCHANGED <<passSeenRetired, statSeenRetired>>
    /\ UNCHANGED <<sideVars, tornRead>>
    /\ UNCHANGED obsVars

\* ok = send_email(email, url, current, target); who records the call in
\* `called` is left to the specification that takes the step.
PassSendWith(transportOk) ==
    /\ pass.pc = "send"
    /\ LET r == send_email(creds, transportOk) IN
         /\ pass' = IF DeletesAfter(r.ok)
                      THEN [pass EXCEPT !.pc = "delete", !.ok = r.ok]
                      ELSE [IdlePass EXCEPT !.pc = "iter", !.todo = pass.todo]
         /\ sent' = IF r.ok THEN [sent EXCEPT ![pass.path] = @ \cup {"pass"}] ELSE sent
         /\ smtpAttempted' = (smtpAttempted \/ r.smtp)
    /\ UNCHANGED <<files, creds, nextId, req, stat>>
    /\ UNCHANGED <<passSeenRetired, statSeenRetired>>
    /\ UNCHANGED <<sideVars, tornRead>>
    /\ UNCHANGED <<origin, qualified, retired, deleteRaised>>

PassSend ==
    \E transportOk \in BOOLEAN : PassSendWith(transportOk) /\ UNCHANGED called

\* delete_tracker_file(path); the try of lines 175-184 encloses the call.
PassDeleteWith(unlinkOk) ==
    /\ pass.pc = "delete"
    /\ LET r == delete_tracker_file(files, pass.path, unlinkOk) IN
         /\ files' = r.fs
         /\ deleteRaised' = (deleteRaised \/ r.raised)
    /\ retired' = retired \cup (DOMAIN files \ DOMAIN files')
    /\ pass' = [IdlePass EXCEPT !.pc = "iter", !.todo = pass.todo]
    /\ UNCHANGED <<creds, nextId, req, stat>>
    /\ UNCHANGED <<passSeenRetired, statSeenRetired>>
    /\ UNCHANGED <<sideVars, tornRead>>
    /\ UNCHANGED <<origin, sent, qualified, smtpAttempted, called>>

PassDelete == \E unlinkOk \in BOOLEAN : PassDeleteWith(unlinkOk)

\* The generator is exhausted: the job returns.
PassFinish ==
    /\ pass.pc = "iter"
    /\ pass.todo = {}
    /\ pass' = IdlePass
    /\ UNCHANGED <<files, creds, nextId, req, stat>>
    /\ UNCHANGED <<passSeenRetired, statSeenRetired>>
    /\ UNCHANGED <<sideVars, tornRead>>
    /\ UNCHANGED obsVars


(* ------------------------------- track -------------------------------- *)
\* `not target`: a missing key, null, "" and the JSON number 0 are falsy;
\* a string that spells a number ("numeral") is not, whatever the number.
Falsy(t) == t.kind = "None" \/ (t.kind = "number" /\ t.value = 0)

\* The test of line 202 with the email left out.
Accepted_NoEmail(r) ==
    r.url # None /\ ~Falsy(r.target) /\ r.target.kind # "text"

\* `if not url or not target or not email` and float(target), which
\* raises ValueError on a text that spells no number.
Accepted(r) ==
    r.url # None /\ r.email # None /\ ~Falsy(r.target) /\ r.target.kind # "text"

\* Every body a client may post: the target as a JSON number or as the
\* string a form sends, negative and zero included.
TargetInputs == {0 - 1, 0} \cup Targets
RequestsAny ==
    [url : {"u", None}, email : {"e", None},
     target : {[kind |-> "None", value |-> 0], [kind |-> "text", value |-> 0]}
                \cup {[kind |-> k, value |-> v] :
                        k \in {"number", "numeral"}, v \in TargetInputs}]

\* A request with a field missing or a target that is not numeric: 400.
TrackRejectWith(r) ==
    /\ req.pc = "idle"
    /\ /\ ~Accepted(r)
       /\ req' = [IdleReq EXCEPT !.response = 400]
    /\ UNCHANGED <<files, creds, nextId, pass, stat>>
    /\ UNCHANGED <<passSeenRetired, statSeenRetired>>
    /\ UNCHANGED <<sideVars, tornRead>>
    /\ UNCHANGED obsVars

TrackReject == \E r \in Requests : TrackRejectWith(r)

\* tid = save_tracker(tracker): the record is on disk under a fresh id.
TrackSaveWith(r) ==
    /\ req.pc = "idle"
    /\ nextId <= MaxFiles
    /\ /\ Accepted(r)
       /\ LET data == Tracker(r.url, r.target.value, r.email)
                tid  == uuid4(nextId)
          IN
            /\ files' = save_tracker(files, tid, data)
            /\ origin' = IF tid \in DOMAIN origin
                            THEN origin
                            ELSE [q \in DOMAIN origin \cup {tid} |->
                                    IF q = tid THEN data ELSE origin[q]]
            /\ req' = [IdleReq EXCEPT !.pc = "fetch", !.tid = tid,
                                      !.tracker = data]
    /\ nextId' = nextId + 1
    /\ UNCHANGED <<creds, pass, stat>>
    /\ UNCHANGED <<passSeenRetired, statSeenRetired>>
    /\ UNCHANGED <<sideVars, tornRead>>
    /\ UNCHANGED <<sent, qualified, retired, smtpAttempted, deleteRaised, called>>

TrackSave == \E r \in Requests : TrackSaveWith(r)

\* current = get_price(url), None when it raises.
TrackGetPriceWith(o) ==
    /\ req.pc = "fetch"
    /\ /\ req' = IF o.kind # "price"
                   THEN [req EXCEPT !.pc = "respond"]
                   ELSE [req EXCEPT !.pc = "compare", !.current = o.value]
       /\ qualified' = IF o.kind = "price" /\ o.value <= req.tracker.target_price
                         THEN qualified \cup {req.tid} ELSE qualified
    /\ UNCHANGED <<files, creds, nextId, pass, stat>>
    /\ UNCHANGED <<passSeenRetired, statSeenRetired>>
    /\ UNCHANGED <<sideVars, tornRead>>
    /\ UNCHANGED <<origin, sent, retired, smtpAttempted, deleteRaised, called>>

TrackGetPrice == \E o \in PriceOutcomes : TrackGetPriceWith(o)

\* The immediate evaluation comparing without the boundary.
TrackCompare_Strict ==
    /\ req.pc = "compare"
    /\ req' = IF Qualifies_Strict(req.current, req.tracker.target_price)
                THEN [req EXCEPT !.pc = "send"]
                ELSE [req EXCEPT !.pc = "respond"]
    /\ UNCHANGED <<files, creds, nextId, pass, stat>>
    /\ UNCHANGED <<passSeenRetired, statSeenRetired>>
    /\ UNCHANGED <<sideVars, tornRead>>
    /\ UNCHANGED obsVars

\* if float(current) <= float(target_price):
TrackCompare ==
    /\ req.pc = "compare"
    /\ req' = IF Qualifies(req.current, req.tracker.target_price)
                THEN [req EXCEPT !.pc = "send"]
                ELSE [req EXCEPT !.pc = "respond"]
    /\ UNCHANGED <<files, creds, nextId, pass, stat>>
    /\ UNCHANGED <<passSeenRetired, statSeenRetired>>
    /\ UNCHANGED <<sideVars, tornRead>>
    /\ UNCHANGED obsVars

\* ok = send_email(email, url, current, target_price); `called` as in
\* PassSendWith.
TrackSendWith(transportOk) ==
    /\ req.pc = "send"
    /\ LET r == send_email(creds, transportOk) IN
         /\ req' = [req EXCEPT !.ok = r.ok,
                      !.pc = IF DeletesAfter(r.ok) THEN "delete" ELSE "respond"]
         /\ sent' = IF r.ok THEN [sent EXCEPT ![req.tid] = @ \cup {"track"}] ELSE sent
         /\ smtpAttempted' = (smtpAttempted \/ r.smtp)
    /\ UNCHANGED <<files, creds, nextId, pass, stat>>
    /\ UNCHANGED <<passSeenRetired, statSeenRetired>>
    /\ UNCHANGED <<sideVars, tornRead>>
    /\ UNCHANGED <<origin, qualified, retired, deleteRaised>>

TrackSend ==
    \E transportOk \in BOOLEAN : TrackSendWith(transportOk) /\ UNCHANGED called

\* delete_tracker_file(...); emailed = True (skipped if the call raised,
\* the except of line 225 then takes over).
TrackDeleteWith(unlinkOk) ==
    /\ req.pc = "delete"
    /\ LET r == delete_tracker_file(files, req.tid, unlinkOk) IN
         /\ files' = r.fs
         /\ deleteRaised' = (deleteRaised \/ r.raised)
         /\ req' = [req EXCEPT !.pc = "respond", !.emailed = ~r.raised,
                               !.unlinked = UnlinkSeen(files, r.fs, req.tid)]
    /\ retired' = retired \cup (DOMAIN files \ DOMAIN files')
    /\ UNCHANGED <<creds, nextId, pass, stat>>
    /\ UNCHANGED <<passSeenRetired, statSeenRetired>>
    /\ UNCHANGED <<sideVars, tornRead>>
    /\ UNCHANGED <<origin, sent, qualified, smtpAttempted, called>>

TrackDelete == \E unlinkOk \in BOOLEAN : TrackDeleteWith(unlinkOk)

\* return jsonify({"ok": True, "id": tid, "emailed": emailed, ...}): the
\* body is req.tid, req.emailed and req.current as they stand here;
\* response keeps the status code of the last answer.
TrackRespond ==
    /\ req.pc = "respond"
    /\ req' = [IdleReq EXCEPT !.response = 200]
    /\ UNCHANGED <<files, creds, nextId, pass, stat>>
    /\ UNCHANGED <<passSeenRetired, statSeenRetired>>
    /\ UNCHANGED <<sideVars, tornRead>>
    /\ UNCHANGED obsVars

(* ------------------------------- status ------------------------------- *)
\* load_all_trackers globs data/*.json once for the listing.
StatusStart ==
    /\ stat.pc = "idle"
    /\ stat' = [pc |-> "iter", todo |-> glob(files), items |-> {}]
    /\ statSeenRetired' = retired
    /\ UNCHANGED <<files, creds, nextId, pass, req, passSeenRetired>>
    /\ UNCHANGED <<sideVars, tornRead>>
    /\ UNCHANGED obsVars

\* The next file is opened: appended to items when it loads, skipped when
\* it is gone or corrupt; d.get on a record that is not a dict ends the
\* request with an error and no listing.
StatusRead ==
    /\ stat.pc = "iter"
    /\ \E p \in stat.todo :
         /\ stat' = IF ~Readable(files, p)
                      THEN [stat EXCEPT !.todo = @ \ {p}]
                    ELSE IF GetRaises(load(files, p))
                      THEN IdleStat
                    ELSE [stat EXCEPT !.todo = @ \ {p}, !.items = @ \cup {p}]
         /\ tornRead' = IF Writing(p) THEN tornRead \cup {p} ELSE tornRead
    /\ UNCHANGED <<files, creds, nextId, pass, req>>
    /\ UNCHANGED <<passSeenRetired, statSeenRetired>>
    /\ UNCHANGED sideVars
    /\ UNCHANGED obsVars

\* return jsonify({"ok": True, "trackers": items}): the listing returned
\* is stat.items as it stands when the generator is exhausted.
StatusRespond ==
    /\ stat.pc = "iter"
    /\ stat.todo = {}
    /\ stat' = IdleStat
    /\ UNCHANGED <<files, creds, nextId, pass, req>>
    /\ UNCHANGED <<passSeenRetired, statSeenRetired>>
    /\ UNCHANGED <<sideVars, tornRead>>
    /\ UNCHANGED obsVars

(* ---------------------------- specification --------------------------- *)
\* The check engine: the scheduled pass next to creation requests.
Next ==
    \/ PassStart \/ PassSkip \/ PassLoadAbort \/ PassLoad \/ PassGetPrice
    \/ PassCompare \/ PassSend \/ PassDelete \/ PassFinish
    \/ TrackReject \/ TrackSave \/ TrackGetPrice \/ TrackCompare
    \/ TrackSend \/ TrackDelete \/ TrackRespond

Spec == Init /\ [][Next]_vars

\* Listing requests next to the scheduled pass.
NextListing ==
    \/ PassStart \/ PassSkip \/ PassLoadAbort \/ PassLoad \/ PassGetPrice
    \/ PassCompare \/ PassSend \/ PassDelete \/ PassFinish
    \/ StatusStart \/ StatusRead \/ StatusRespond

SpecListing == Init /\ [][NextListing]_vars

(* ------------------- save_tracker, write by write --------------------- *)
\* path.open("w"): the file exists and is empty.
TrackOpenWith(r) ==
    /\ req.pc = "idle"
    /\ nextId <= MaxFiles
    /\ Accepted(r)
    /\ LET data == Tracker(r.url, r.target.value, r.email)
           tid  == uuid4(nextId)
       IN
         /\ files' = write_chunks(files, tid, data, 0)
         /\ origin' = IF tid \in DOMAIN origin
                         THEN origin
                         ELSE [q \in DOMAIN origin \cup {tid} |->
                                 IF q = tid THEN data ELSE origin[q]]
         /\ req' = [IdleReq EXCEPT !.pc = "write", !.tid = tid,
                                   !.tracker = data]
    /\ nextId' = nextId + 1
    /\ UNCHANGED <<creds, pass, stat>>
    /\ UNCHANGED <<passSeenRetired, statSeenRetired>>
    /\ UNCHANGED <<sideVars, tornRead>>
    /\ UNCHANGED <<sent, qualified, retired, smtpAttempted, deleteRaised, called>>

TrackOpen == \E r \in Requests : TrackOpenWith(r)

\* json.dump and the end of the `with`: the buffer reaches the file in
\* one flush or in several; save_tracker returns after the last one.
TrackWrite ==
    /\ req.pc = "write"
    /\ \E n \in (req.written + 1)..Len(json_dump(req.tracker)) :
         /\ files' = write_chunks(files, req.tid, req.tracker, n)
         /\ req' = [req EXCEPT !.written = n,
                      !.pc = IF n = Len(json_dump(req.tracker))
                               THEN "fetch" ELSE "write"]
    /\ UNCHANGED <<creds, nextId, pass, stat>>
    /\ UNCHANGED <<passSeenRetired, statSeenRetired>>
    /\ UNCHANGED <<sideVars, tornRead>>
    /\ UNCHANGED obsVars

\* Creation requests, write by write, next to the pass and the listing,
\* on a store that starts empty and while no page shows a price: every
\* evaluation ends at get_price, so that no record is retired.
NoPrice == {o \in PriceOutcomes : o.kind # "price"}
WritePassGetPrice == \E o \in NoPrice : PassGetPriceWith(o)
WriteTrackGetPrice == \E o \in NoPrice : TrackGetPriceWith(o)

InitEmpty ==
    /\ files = << >>
    /\ nextId = 1
    /\ creds = TRUE
    /\ pass = IdlePass
    /\ req = IdleReq
    /\ stat = IdleStat
    /\ origin = files
    /\ sent = [i \in AllIds |-> {}]
    /\ called = [i \in AllIds |-> {}]
    /\ qualified = {}
    /\ retired = {}
    /\ smtpAttempted = FALSE
    /\ deleteRaised = FALSE
    /\ passSeenRetired = {}
    /\ statSeenRetired = {}
    /\ tornRead = {}
    /\ script = NoScript
    /\ page = NoPage
    /\ rs = IdleResolver

NextWrite ==
    \/ PassStart \/ PassSkip \/ PassLoad \/ WritePassGetPrice \/ PassFinish
    \/ TrackReject \/ TrackOpen \/ TrackWrite \/ WriteTrackGetPrice
    \/ TrackRespond
    \/ StatusStart \/ StatusRead \/ StatusRespond

SpecWrite == InitEmpty /\ [][NextWrite]_vars

\* C12: while save_tracker writes a record and a pass or a listing reads
\* the store, the record a pass takes up for an id and the record a
\* listing adds for an id is the complete record written for that id;
\* a file read before its last chunk parses as nothing.
C12_AtomicVisibility ==
    [][/\ (pass.pc = "iter" /\ pass'.pc = "fetch")
            => pass'.tracker = origin[pass'.path]
       /\ \A p \in stat'.items \ stat.items : load(files, p) = origin[p]
       /\ \A p \in tornRead' \ tornRead :
            /\ ~(pass.pc = "iter" /\ pass'.pc = "fetch" /\ pass'.path = p)
            /\ p \notin stat'.items]_vars

\* A listing and a pass each opened a file save_tracker was still
\* writing, and the listing, over, shows nothing for it.
C12_Witness ==
    /\ \E p \in tornRead : stat.pc = "iter" /\ stat.todo = {} /\ p \notin stat.items
                              /\ Writing(p) /\ req.written > 0
    /\ Cardinality(tornRead) = 2

(* ------------------ get_price: from the text to the price ------------- *)
\* A text is a sequence of characters, each a one-character string.
Digits == {"0", "1", "2", "3", "4", "5", "6", "7", "8", "9"}
DigitOf == ("0" :> 0) @@ ("1" :> 1) @@ ("2" :> 2) @@ ("3" :> 3) @@ ("4" :> 4)
           @@ ("5" :> 5) @@ ("6" :> 6) @@ ("7" :> 7) @@ ("8" :> 8) @@ ("9" :> 9)
\* The rupee sign U+20B9, one character.
Rupee == "rupee"
\* What str.strip() takes for white space: the space, and the rest (tab,
\* line feed, no-break space), written "\t".
Whitespace == {" ", "\t"}

\* s.startswith(pat)
StartsWith(s, pat) == Len(s) >= Len(pat) /\ SubSeq(s, 1, Len(pat)) = pat

\* s.replace(pat, ""): every occurrence found in one scan from the left
\* is dropped; what the removals bring together is not scanned again.
RECURSIVE Replace(_, _)
Replace(s, pat) ==
    IF Len(s) = 0 THEN s
    ELSE IF StartsWith(s, pat)
      THEN Replace(SubSeq(s, Len(pat) + 1, Len(s)), pat)
      ELSE <<Head(s)>> \o Replace(Tail(s), pat)

\* s.strip()
RECURSIVE Strip(_)
Strip(s) ==
    IF Len(s) = 0 THEN s
    ELSE IF Head(s) \in Whitespace THEN Strip(Tail(s))
    ELSE IF s[Len(s)] \in Whitespace THEN Strip(SubSeq(s, 1, Len(s) - 1))
    ELSE s

\* Lines 74-75.
Clean(price_text) ==
    Strip(Replace(Replace(Replace(Replace(Replace(price_text,
        <<Rupee>>), <<"R", "s", ".">>), <<"I", "N", "R">>), <<",">>), <<" ">>))

\* A decimal numeral: digits around at most one point, one digit at least.
IsDecimal(s) ==
    /\ \A i \in 1..Len(s) : s[i] \in Digits \cup {"."}
    /\ Cardinality({i \in 1..Len(s) : s[i] = "."}) <= 1
    /\ \E i \in 1..Len(s) : s[i] \in Digits

RECURSIVE ValueOf(_)
ValueOf(ds) ==
    IF Len(ds) = 0 THEN 0
    ELSE ValueOf(SubSeq(ds, 1, Len(ds) - 1)) * 10 + DigitOf[ds[Len(ds)]]

RECURSIVE TrimZeros(_)
TrimZeros(ds) ==
    IF Len(ds) > 0 /\ ds[Len(ds)] = "0"
      THEN TrimZeros(SubSeq(ds, 1, Len(ds) - 1)) ELSE ds

\* The number a decimal numeral spells: its whole part, and its
\* fraction digits without the zeros at the end.
Number(s) ==
    LET dot == IF \E i \in 1..Len(s) : s[i] = "."
                 THEN CHOOSE i \in 1..Len(s) : s[i] = "." ELSE Len(s) + 1
    IN [kind |-> "number", whole |-> ValueOf(SubSeq(s, 1, dot - 1)),
        frac |-> TrimZeros(SubSeq(s, dot + 1, Len(s)))]

\* float(s) on a stripped text of these characters: a decimal numeral,
\* or one of the words float takes in any case; ValueError otherwise.
FloatFails(s) ==
    ~IsDecimal(s) /\ s \notin {<<"N", "A", "N">>, <<"I", "N", "F">>}
float(s) ==
    IF IsDecimal(s) THEN Number(s)
    ELSE IF s = <<"N", "A", "N">> THEN [kind |-> "nan", whole |-> 0, frac |-> << >>]
    ELSE [kind |-> "inf", whole |-> 0, frac |-> << >>]

\* re.findall(r"[\d\.]+", s)[0]: the first run of digits and points, as
\* long as it goes; empty when s has none.
RECURSIVE TakeRun(_)
TakeRun(s) ==
    IF Len(s) > 0 /\ Head(s) \in Digits \cup {"."}
      THEN <<Head(s)>> \o TakeRun(Tail(s)) ELSE << >>
RECURSIVE FirstRun(_)
FirstRun(s) ==
    IF Len(s) = 0 THEN s
    ELSE IF Head(s) \in Digits \cup {"."} THEN TakeRun(s)
    ELSE FirstRun(Tail(s))

\* Lines 77-88.
Parse(cleaned) ==
    IF ~FloatFails(cleaned) THEN float(cleaned)
    ELSE IF Len(FirstRun(cleaned)) = 0 THEN NoneResult
    ELSE IF ~FloatFails(FirstRun(cleaned)) THEN float(FirstRun(cleaned))
    ELSE NoneResult

\* Lines 71-75: an empty text is no price; otherwise the markers, the
\* commas and the spaces go.
ResolverClean ==
    /\ rs.pc = "matched"
    /\ rs' = IF Len(rs.price_text) = 0
               THEN [rs EXCEPT !.pc = "done", !.result = NoneResult]
               ELSE [rs EXCEPT !.pc = "cleaned", !.cleaned = Clean(rs.price_text)]
    /\ UNCHANGED <<files, creds, nextId, pass, req, stat, page, script>>
    /\ UNCHANGED <<passSeenRetired, statSeenRetired, tornRead>>
    /\ UNCHANGED obsVars

\* Lines 77-88: float(cleaned), and the first run of the text when that
\* raises.
ResolverParse ==
    /\ rs.pc = "cleaned"
    /\ rs' = [rs EXCEPT !.pc = "done", !.result = Parse(rs.cleaned)]
    /\ UNCHANGED <<files, creds, nextId, pass, req, stat, page, script>>
    /\ UNCHANGED <<passSeenRetired, statSeenRetired, tornRead>>
    /\ UNCHANGED obsVars

\* The characters the texts are drawn from, and the longest text.
MaxLen == 4
Alphabet == {"1", "5", ".", ",", " ", "\t", Rupee, "R", "s", "I", "N", "A"}
Texts == UNION {[1..n -> Alphabet] : n \in 0..MaxLen}
\* Texts of pages as they are met: the two of the specification, a label
\* before the amount, a word.
Examples ==
    {<<Rupee, "1", ",", "2", "3", ",", "4", "5", "6", ".", "5", "0">>,
     <<"R", "s", ".", " ", "9", "9", "9">>,
     <<"M", ".", "R", ".", "P", ".", ":", " ", Rupee, "1", ",", "2", "9", "9">>,
     <<"N", "/", "A">>}

\* get_price has matched a text: lines 57 and 67 have stripped it.
InitParse ==
    /\ rs \in {[IdleResolver EXCEPT !.pc = "matched", !.price_text = t] :
                 t \in {x \in Texts \cup Examples : Strip(x) = x}}
    /\ page = NoPage
    /\ script = NoScript
    /\ files = << >>
    /\ nextId = 1
    /\ creds = TRUE
    /\ pass = IdlePass
    /\ req = IdleReq
    /\ stat = IdleStat
    /\ origin = files
    /\ sent = [i \in AllIds |-> {}]
    /\ called = [i \in AllIds |-> {}]
    /\ qualified = {}
    /\ retired = {}
    /\ smtpAttempted = FALSE
    /\ deleteRaised = FALSE
    /\ passSeenRetired = {}
    /\ statSeenRetired = {}
    /\ tornRead = {}

NextParse == ResolverClean \/ ResolverParse

SpecParse == InitParse /\ [][NextParse]_vars

\* The reference of the specification: markers, commas and white space
\* go; the rest is read as a decimal; failing that, the first numeric
\* substring is read, digits with one decimal point at most, as long as
\* it goes; nothing when the text holds no number.
RECURSIVE Without(_, _)
Without(s, cs) ==
    IF Len(s) = 0 THEN s
    ELSE IF Head(s) \in cs THEN Without(Tail(s), cs)
    ELSE <<Head(s)>> \o Without(Tail(s), cs)
RefClean(t) ==
    Without(Replace(Replace(Replace(t, <<Rupee>>), <<"R", "s", ".">>),
                    <<"I", "N", "R">>), Whitespace \cup {","})
RECURSIVE TakeNumeral(_, _)
TakeNumeral(s, pointSeen) ==
    IF Len(s) = 0 THEN s
    ELSE IF Head(s) \in Digits THEN <<Head(s)>> \o TakeNumeral(Tail(s), pointSeen)
    ELSE IF Head(s) = "." /\ ~pointSeen THEN <<".">> \o TakeNumeral(Tail(s), TRUE)
    ELSE << >>
RECURSIVE FirstNumeral(_)
FirstNumeral(s) ==
    IF Len(s) = 0 THEN s
    ELSE IF IsDecimal(TakeNumeral(s, FALSE)) THEN TakeNumeral(s, FALSE)
    ELSE FirstNumeral(Tail(s))
Reference(t) ==
    IF IsDecimal(RefClean(t)) THEN Number(RefClean(t))
    ELSE IF Len(FirstNumeral(RefClean(t))) = 0 THEN NoneResult
    ELSE Number(FirstNumeral(RefClean(t)))

\* C14: for every matched text the price get_price returns is the one
\* the reference gives: the decimal left once markers, commas and white
\* space are gone, else the first numeric substring, else nothing.
C14_MatchesReference ==
    rs.pc = "done" => rs.result = Reference(rs.price_text)

(* ------------------ get_price: from the page to the text -------------- *)
\* The selectors of lines 44-50, in their order; the one of line 66 comes
\* after them.
NumSelectors == 5
Fallback == NumSelectors + 1

\* What a selector finds: no element (find_element raises), or an element
\* with its textContent attribute and its rendered text, which is the
\* visible part of the former: both empty, white space only, a text that
\* is not rendered (off screen), a text with white space around it.  The
\* element of selector i shows the digit i, so that its text tells where
\* it is from.
Shapes == {"absent", "empty", "blank", "hidden", "padded"}
Element(i, shape) ==
    LET d == CHOOSE c \in Digits : DigitOf[c] = i IN
    [exists |-> shape # "absent",
     textContent |-> IF shape = "blank" THEN <<" ">>
                     ELSE IF shape = "hidden" THEN <<d>>
                     ELSE IF shape = "padded" THEN <<" ", d, " ">> ELSE << >>,
     text |-> IF shape = "padded" THEN <<d>> ELSE << >>]
Pages == {[i \in 1..Fallback |-> Element(i, f[i])] : f \in [1..Fallback -> Shapes]}

\* el.get_attribute("textContent") or el.text
TextOf(el) == IF Len(el.textContent) > 0 THEN el.textContent ELSE el.text

\* A loop that does not stop at its first match.
ResolverTry_NoBreak ==
    /\ rs.pc = "select"
    /\ LET i == rs.i
           txt == Strip(TextOf(page[i]))
       IN rs' = [rs EXCEPT
                   !.consulted = Append(@, i),
                   !.price_text = IF page[i].exists /\ Len(txt) > 0 THEN txt ELSE @,
                   !.i = i + 1,
                   !.pc = IF i = NumSelectors THEN "after" ELSE "select"]
    /\ UNCHANGED <<files, creds, nextId, pass, req, stat, page, script>>
    /\ UNCHANGED <<passSeenRetired, statSeenRetired, tornRead>>
    /\ UNCHANGED obsVars

\* Lines 53-62, one turn of the loop: the selector is tried; a raise or
\* an empty text goes to the next selector, a text ends the loop.
ResolverTry ==
    /\ rs.pc = "select"
    /\ LET i == rs.i
           txt == Strip(TextOf(page[i]))
       IN rs' = IF page[i].exists /\ Len(txt) > 0
                  THEN [rs EXCEPT !.consulted = Append(@, i),
                                  !.price_text = txt, !.pc = "after"]
                  ELSE [rs EXCEPT !.consulted = Append(@, i), !.i = i + 1,
                                  !.pc = IF i = NumSelectors THEN "after"
                                                             ELSE "select"]
    /\ UNCHANGED <<files, creds, nextId, pass, req, stat, page, script>>
    /\ UNCHANGED <<passSeenRetired, statSeenRetired, tornRead>>
    /\ UNCHANGED obsVars

\* Lines 64-69: with no text yet, the selector of line 66 is tried; its
\* text is taken as it is once stripped, a raise is passed over.
ResolverFallback ==
    /\ rs.pc = "after"
    /\ rs' = IF Len(rs.price_text) > 0
               THEN [rs EXCEPT !.pc = "matched"]
             ELSE IF page[Fallback].exists
               THEN [rs EXCEPT !.consulted = Append(@, Fallback), !.pc = "matched",
                               !.price_text = Strip(TextOf(page[Fallback]))]
             ELSE [rs EXCEPT !.consulted = Append(@, Fallback), !.pc = "matched"]
    /\ UNCHANGED <<files, creds, nextId, pass, req, stat, page, script>>
    /\ UNCHANGED <<passSeenRetired, statSeenRetired, tornRead>>
    /\ UNCHANGED obsVars

\* driver.get(url) has loaded a page; price_text = None.
InitSelect ==
    /\ page \in Pages
    /\ rs = [IdleResolver EXCEPT !.pc = "select", !.i = 1]
    /\ script = NoScript
    /\ files = << >>
    /\ nextId = 1
    /\ creds = TRUE
    /\ pass = IdlePass
    /\ req = IdleReq
    /\ stat = IdleStat
    /\ origin = files
    /\ sent = [i \in AllIds |-> {}]
    /\ called = [i \in AllIds |-> {}]
    /\ qualified = {}
    /\ retired = {}
    /\ smtpAttempted = FALSE
    /\ deleteRaised = FALSE
    /\ passSeenRetired = {}
    /\ statSeenRetired = {}
    /\ tornRead = {}

NextSelect == ResolverTry \/ ResolverFallback \/ ResolverClean \/ ResolverParse

SpecSelect == InitSelect /\ [][NextSelect]_vars

\* Selector i finds an element whose text, trimmed, is not empty.
Yields(i) == page[i].exists /\ Len(Strip(TextOf(page[i]))) > 0
Primaries == 1..NumSelectors
FirstYielding == CHOOSE i \in Primaries : Yields(i) /\ \A j \in 1..(i - 1) : ~Yields(j)

\* C17: the text get_price goes on with is the trimmed text of the first
\* primary selector, in the order of the list, whose element exists with
\* a text that is not empty once trimmed; the selectors after it are not
\* consulted, the fallback neither; selectors that raise or give an
\* empty text are passed over; the fallback is consulted when no primary
\* gave a text, and only then; when nothing gives a text the result is
\* None and no error.
C17_FirstMatch ==
    rs.pc \in {"matched", "cleaned", "done"} =>
      IF \E i \in Primaries : Yields(i)
        THEN /\ rs.price_text = Strip(TextOf(page[FirstYielding]))
             /\ rs.consulted = [k \in 1..FirstYielding |-> k]
        ELSE /\ rs.consulted = [k \in 1..Fallback |-> k]
             /\ rs.price_text = IF Yields(Fallback)
                                  THEN Strip(TextOf(page[Fallback])) ELSE << >>
             /\ (rs.pc = "done" /\ ~Yields(Fallback)) => rs.result = NoneResult

\* The first selector raised, the second gave white space only, the
\* third gave the text; the fourth has a text too and was not consulted.
C17_Witness ==
    /\ rs.pc = "done"
    /\ ~page[1].exists
    /\ page[2].exists /\ ~Yields(2)
    /\ Yields(3) /\ Yields(4)
    /\ rs.consulted = <<1, 2, 3>>
    /\ rs.result = [kind |-> "number", whole |-> 3, frac |-> << >>]

(* ------------------------ the scheduler, for ever --------------------- *)
\* The interval job fires again and again and each pass runs on; every
\* page shows a price at or under the target of the tracker evaluated;
\* send_email, called again and again, succeeds in the end.  Nothing is
\* assumed of the medium nor of the order in which glob lists the files.
QualifyingOutcomes(tracker) ==
    {o \in PriceOutcomes :
       /\ o.kind = "price"
       /\ tracker.target_kind = "number" => o.value <= tracker.target_price}

LivePassGetPrice == \E o \in QualifyingOutcomes(pass.tracker) : PassGetPriceWith(o)
LivePassSendOk == PassSendWith(TRUE) /\ UNCHANGED called

NextLive ==
    \/ PassStart \/ PassSkip \/ PassLoadAbort \/ PassLoad \/ LivePassGetPrice
    \/ PassCompare \/ PassSend \/ PassDelete \/ PassFinish

SpecLive ==
    Init /\ [][NextLive]_vars /\ WF_vars(NextLive) /\ SF_vars(LivePassSendOk)

\* A stored record the pass takes for a tracker, with credentials set.
Deliverable(id) ==
    /\ creds
    /\ id \in DOMAIN files
    /\ Readable(files, id) /\ ~GetRaises(files[id])
    /\ ~IsInvalid(files[id]) /\ ~FloatRaises(files[id])

\* C15: a valid tracker whose price is at or under its target at every
\* evaluation, with passes that keep firing and a send_email that
\* succeeds in the end, is retired in the end: its record leaves the
\* store.
C15_EventualRetirement ==
    \A id \in AllIds : Deliverable(id) ~> (id \notin DOMAIN files)

(* ---------------------- every body a client posts --------------------- *)
\* Creation requests with any body, next to the pass, on a store that
\* starts empty: every record in it was persisted by track.
InputTrackReject == \E r \in RequestsAny : TrackRejectWith(r)
InputTrackSave == \E r \in RequestsAny : TrackSaveWith(r)

NextInput ==
    \/ PassStart \/ PassSkip \/ PassLoad \/ PassGetPrice
    \/ PassCompare \/ PassSend \/ PassDelete \/ PassFinish
    \/ InputTrackReject \/ InputTrackSave \/ TrackGetPrice \/ TrackCompare
    \/ TrackSend \/ TrackDelete \/ TrackRespond

SpecInput == InitEmpty /\ [][NextInput]_vars

\* C13: every record track persists has a target_price above zero; a
\* request whose target is zero or negative is never persisted.
C13_PositiveTarget ==
    \A id \in DOMAIN origin :
       origin[id].target_kind = "number" /\ origin[id].target_price > 0

(* ----------------- one evaluation replayed on both paths -------------- *)
\* The store holds one tracker; the same record is then posted to track.
\* The page provider, the mail transport and the medium give both code
\* paths the same answers, those of script.
Scripts ==
    [r : {r \in RequestsAny : Accepted(r)}, o : PriceOutcomes,
     transportOk : BOOLEAN, unlinkOk : BOOLEAN]

InitTwin ==
    /\ script \in Scripts
    /\ page = NoPage
    /\ rs = IdleResolver
    /\ files = <<Tracker(script.r.url, script.r.target.value, script.r.email)>>
    /\ nextId = 2
    /\ creds \in BOOLEAN
    /\ pass = IdlePass
    /\ req = IdleReq
    /\ stat = IdleStat
    /\ origin = files
    /\ sent = [i \in AllIds |-> {}]
    /\ tornRead = {}
    /\ called = [i \in AllIds |-> {}]
    /\ qualified = {}
    /\ retired = {}
    /\ smtpAttempted = FALSE
    /\ deleteRaised = FALSE
    /\ passSeenRetired = {}
    /\ statSeenRetired = {}

\* The pass runs over the store that holds only the first tracker.
TwinPassStart == nextId = 2 /\ PassStart
TwinPassGetPrice == PassGetPriceWith(script.o)
TwinPassSend ==
    /\ PassSendWith(script.transportOk)
    /\ called' = [called EXCEPT ![pass.path] = @ \cup {"pass"}]
TwinPassDelete == PassDeleteWith(script.unlinkOk)
TwinTrackSave == nextId = 2 /\ TrackSaveWith(script.r)
TwinTrackGetPrice == TrackGetPriceWith(script.o)
TwinTrackSend ==
    /\ TrackSendWith(script.transportOk)
    /\ called' = [called EXCEPT ![req.tid] = @ \cup {"track"}]
TwinTrackDelete == TrackDeleteWith(script.unlinkOk)

NextTwin ==
    \/ TwinPassStart \/ PassLoad \/ TwinPassGetPrice \/ PassCompare
    \/ TwinPassSend \/ TwinPassDelete \/ PassFinish
    \/ TwinTrackSave \/ TwinTrackGetPrice \/ TrackCompare
    \/ TwinTrackSend \/ TwinTrackDelete \/ TrackRespond

SpecTwin == InitTwin /\ [][NextTwin]_vars

\* Both evaluations are over: the pass has gone through the store and the
\* request is about to answer.
TwinDone ==
    /\ pass.pc = "iter" /\ pass.todo = {}
    /\ req.pc = "respond" /\ req.tid = 2

\* C11: for every tracker track accepts and every answer of the page
\* provider, the mail transport and the medium, the immediate evaluation
\* of track calls send_email exactly when one pass over a store holding
\* only that tracker does, gets the same result from it, and leaves the
\* record in the store exactly when the pass does, unchanged.
C11_ImmediateEqualsPass ==
    TwinDone =>
      /\ ("track" \in called[2]) = ("pass" \in called[1])
      /\ ("track" \in sent[2]) = ("pass" \in sent[1])
      /\ (2 \in DOMAIN files) = (1 \in DOMAIN files)
      /\ 2 \in DOMAIN files => files[2] = files[1]

\* Both paths have notified and retired their tracker.
C11_Witness ==
    /\ TwinDone
    /\ "track" \in sent[2] /\ "pass" \in sent[1]
    /\ DOMAIN files = {}

(* ======================== properties of the engine =================== *)
\* The steps at which an activity holds a tracker it has loaded.
Evaluating == {"fetch", "compare", "send", "delete"}
PassHolds(id) == pass.pc \in Evaluating /\ pass.path = id
ReqHolds(id)  == req.pc \in Evaluating /\ req.tid = id

\* A dict that lacks one of the three required keys.
LacksField(d) ==
    d.json = "object" /\ (d.url = None \/ d.target_kind = None \/ d.email = None)

\* C1: a record leaves the store only in the delete step of a scheduled
\* pass or of the immediate evaluation, for the tracker that step holds,
\* and only after send_email returned success for that tracker in that
\* same evaluation; no other step removes a record.
C1_DeleteOnlyAfterNotify ==
    [][\A id \in DOMAIN files :
         id \notin DOMAIN files' =>
           \/ /\ pass.pc = "delete" /\ pass.path = id
              /\ pass.ok /\ "pass" \in sent[id]
              /\ pass'.pc = "iter" /\ req' = req
           \/ /\ req.pc = "delete" /\ req.tid = id
              /\ req.ok /\ "track" \in sent[id]
              /\ req'.pc = "respond" /\ pass' = pass]_vars

\* A deletion has taken effect, after a successful notification.
C1_Witness == \E id \in retired : sent[id] # {} /\ id \notin DOMAIN files

\* C2: once send_email has returned success for a tracker and no
\* evaluation of it is still under way, its record is absent from the
\* store (also when the delete step itself fails).
C2_NotifiedImpliesDeleted ==
    \A id \in DOMAIN origin :
      (sent[id] # {} /\ ~PassHolds(id) /\ ~ReqHolds(id)) => id \notin DOMAIN files

\* C3 as stated: when the immediate evaluation and a scheduled pass both
\* hold the same qualifying tracker, exactly one successful notification
\* is sent for it.
C3_ExactlyOneNotification ==
    \A id \in AllIds :
      ( /\ pass.pc \in {"send", "delete"} /\ pass.path = id
        /\ req.pc \in {"send", "delete"} /\ req.tid = id ) => Cardinality(sent[id]) <= 1

\* C3 amended: both evaluations may notify, but at most one deletion takes
\* effect per tracker (a retired id is never removed a second time), and
\* the delete attempt that finds the record gone leaves the store as it
\* is and raises nothing: the request still answers emailed = true.
C3_AtMostOneDeletion ==
    [][\A id \in AllIds :
         /\ (id \in DOMAIN files /\ id \notin DOMAIN files') => id \notin retired
         /\ ( /\ id \notin DOMAIN files
              /\ \/ pass.pc = "delete" /\ pass.path = id /\ pass' # pass
                 \/ req.pc = "delete" /\ req.tid = id /\ req' # req )
            => /\ files' = files
               /\ ~deleteRaised'
               /\ (req' # req => req'.pc = "respond" /\ req'.emailed)]_vars

\* The race has run: both evaluations notified, the pass deleted the
\* record and the request's own delete found it gone.
C3_Witness ==
    /\ req.pc = "respond" /\ req.emailed /\ req.unlinked = "absent"
    /\ req.tid \in retired
    /\ sent[req.tid] = {"pass", "track"}

\* C4: once a tracker is retired its file never comes back, no pass takes
\* it up any more and no listing adds it any more; a pass started after
\* the retirement never holds it (so it neither notifies for it nor
\* deletes it again) and a listing started afterwards never contains it.
C4_IdempotentRetirement ==
    [][/\ \A id \in retired :
            /\ id \in retired' /\ id \notin DOMAIN files'
            /\ PassHolds(id)' => PassHolds(id)
            /\ id \in stat'.items => id \in stat.items
       /\ \A id \in passSeenRetired' : ~PassHolds(id)'
       /\ \A id \in statSeenRetired' : id \notin stat'.items]_vars

\* A pass and a listing, both started after a retirement, have run to
\* their end.
C4_Witness ==
    /\ passSeenRetired # {} /\ pass.pc = "iter" /\ pass.todo = {}
    /\ statSeenRetired # {} /\ stat.pc = "iter" /\ stat.todo = {}

\* C5: a tracker for which no evaluation ever resolved a price at or below
\* the target keeps its record, unchanged, and send_email is never called
\* for it: no activity is at its send or delete step with it.
C5_MonotonicRetry ==
    \A id \in DOMAIN origin :
      id \notin qualified =>
        /\ id \in DOMAIN files /\ files[id] = origin[id]
        /\ sent[id] = {}
        /\ ~(pass.pc \in {"send", "delete"} /\ pass.path = id)
        /\ ~(req.pc \in {"send", "delete"} /\ req.tid = id)

\* After a creation request was answered, a pass has just resolved a
\* price above the target for a tracker that never qualified.
C5_Witness ==
    /\ pass.pc = "compare" /\ pass.current > pass.tracker.target_price
    /\ pass.path \notin qualified
    /\ req.pc = "idle" /\ req.response = 200
    /\ pass.path \in DOMAIN files

\* C6: a failure while listing or evaluating one tracker never aborts the
\* pass: when check_all_trackers stops, no valid tracker of its listing
\* is left unevaluated.
C6_PassNeverAborts ==
    pass.pc = "aborted" =>
      \A p \in pass.todo :
        ~(p \in DOMAIN files /\ files[p].json = "object" /\ ~LacksField(files[p]))

\* C7: a record lacking url, target_price or email is never handed to the
\* resolver or the notifier (no pass ever holds it), and stays on disk as
\* it was.
C7_SkipMissingFields ==
    \A id \in DOMAIN origin :
      LacksField(origin[id]) =>
        /\ id \in DOMAIN files /\ files[id] = origin[id]
        /\ ~PassHolds(id) /\ ~ReqHolds(id)
        /\ sent[id] = {} /\ id \notin qualified

\* A pass has gone over a record lacking a field.
C7_Witness ==
    \E id \in DOMAIN files :
      /\ LacksField(files[id])
      /\ pass.pc = "iter" /\ id \notin pass.todo

\* C8: without sender address or password no SMTP connection is ever
\* opened, no send_email call succeeds and every tracker stays persisted.
C8_FailClosed ==
    ~creds =>
      /\ ~smtpAttempted
      /\ \A id \in AllIds : sent[id] = {}
      /\ retired = {}
      /\ DOMAIN files = DOMAIN origin

\* Without credentials, the immediate evaluation of a qualifying tracker
\* has called send_email and is about to answer.
C8_Witness ==
    /\ ~creds
    /\ req.pc = "respond" /\ req.current >= 1
    /\ req.current <= req.tracker.target_price
    /\ req.tid \in DOMAIN files

\* C9: in the pass and in the immediate evaluation alike, the step that
\* follows a resolved price is the notifier exactly when
\* current <= target, and the notifier is entered from nowhere else.
C9_Threshold ==
    [][/\ (pass.pc = "compare" /\ pass' # pass) =>
            (pass'.pc = "send" <=> pass.current <= pass.tracker.target_price)
       /\ (req.pc = "compare" /\ req' # req) =>
            (req'.pc = "send" <=> req.current <= req.tracker.target_price)
       /\ (pass'.pc = "send" /\ pass.pc # "send") => pass.pc = "compare"
       /\ (req'.pc = "send" /\ req.pc # "send") => req.pc = "compare"]_vars

\* Both evaluations are about to notify at the boundary current = target.
C9_Witness ==
    /\ pass.pc = "send" /\ pass.current = pass.tracker.target_price
    /\ req.pc = "send" /\ req.current = req.tracker.target_price

\* C10: delete_tracker_file never lets an exception reach its caller; on
\* a handle whose record is absent it leaves the store unchanged, and
\* applied twice to a handle it gives the store one application gives.
C10_IdempotentDelete ==
    /\ ~deleteRaised
    /\ \A p \in AllIds, unlinkOk \in BOOLEAN :
         LET once  == delete_tracker_file(files, p, unlinkOk)
             twice == delete_tracker_file(once.fs, p, unlinkOk)
         IN  /\ p \notin DOMAIN files => (once.fs = files /\ ~once.raised)
             /\ twice.fs = once.fs
             /\ ~once.raised /\ ~twice.raised

\* A delete has run on a handle whose record was already gone, and the
\* request went on to its answer.
C10_Witness == req.pc = "respond" /\ req.unlinked = "absent"

\* C16: the record stored under an id is, at every later state, the one
\* written when the id was created; a step changes the store only by
\* adding a record under a new id or by removing a whole record, and an
\* id whose record was removed never holds a record again.
C16_WriteOnce ==
    [][/\ \A id \in DOMAIN files' : files'[id] = origin'[id]
       /\ \A id \in DOMAIN files \cap DOMAIN files' : files'[id] = files[id]
       /\ \A id \in DOMAIN origin \ DOMAIN files : id \notin DOMAIN files'
       /\ \A id \in retired' : id \notin DOMAIN files']_vars

\* One record was removed; another, created by track, has been through
\* an evaluation with a failed delivery and is in the store as written.
C16_Witness ==
    /\ retired # {}
    /\ \E id \in DOMAIN files \cap qualified :
         /\ sent[id] = {} /\ ~PassHolds(id) /\ ~ReqHolds(id)
         /\ files[id] = origin[id]
         /\ \E gone \in retired : gone < id

\* C18: in the answer of track, emailed is true exactly when send_email
\* returned success in the immediate evaluation; when it is true the
\* record is no longer in the store as the answer is returned; when it is
\* false and no pass has retired the record, the record is in the store.
C18_ResponseFlag ==
    req.pc = "respond" =>
      /\ req.emailed = ("track" \in sent[req.tid])
      /\ req.emailed => req.tid \notin DOMAIN files
      /\ (~req.emailed /\ req.tid \notin retired) => req.tid \in DOMAIN files

\* C19: every record track persists passes the validity test of the
\* pass (url and email present, target_price not None and a number): the
\* pass never passes it over as invalid, only when its file is gone, and
\* never raises on it.
C19_CreatedEvaluable ==
    [][/\ \A id \in DOMAIN origin' :
            /\ ~GetRaises(origin'[id]) /\ ~IsInvalid(origin'[id])
            /\ ~FloatRaises(origin'[id])
       /\ pass'.pc # "aborted"
       /\ (pass.pc = "iter" /\ pass'.pc = "iter")
            => \A p \in pass.todo \ pass'.todo : ~Readable(files, p)]_vars

\* The pass compares a price with the zero target of a record that track
\* persisted from the form value "0".
C19_Witness ==
    /\ pass.pc = "compare"
    /\ pass.path \in DOMAIN origin
    /\ pass.tracker = origin[pass.path]
    /\ pass.tracker.target_price = 0

====
